---- MODULE Spec2Model ----
(***************************************************************************)
(* Tool-call dispatch and execution layer of WhatAGent.                    *)
(*                                                                         *)
(* Server side: POST /query (routes.ts) -> DatabaseService (dbService.ts)  *)
(* -> pg pool (connection.ts).                                             *)
(* Client side: the toolcall consumers (the App dispatcher built from the  *)
(* shared tool handlers, ShellExecutorComponent, DatabaseComponent, the   *)
(* App that sets its state inside handleToolCall), and the startup and     *)
(* mounting of a consumer (index.tsx, the useEffect subscription).         *)
(*                                                                         *)
(* Texts that the code inspects (query, operation) are sequences of        *)
(* one-character strings, so trim / toLowerCase / toUpperCase / includes   *)
(* are computed character by character.  Texts that are only copied or     *)
(* concatenated (names, shells, commands, messages) are strings.           *)
(* A JSON object is a function whose domain is the set of keys that are    *)
(* present; a key whose value is undefined is absent, as JSON.stringify    *)
(* leaves it out.  Timestamps of history entries are not modelled.         *)
(***************************************************************************)
EXTENDS Integers, Sequences, FiniteSets, TLC

(***************************************************************************)
(* Bounds                                                                  *)
(***************************************************************************)
MaxInFlight == 2      \* POST /query requests in flight at the same time
MaxCalls == 2         \* function calls in one delivered batch
MaxEmits == 2         \* "toolcall" events emitted over the life of the page

(***************************************************************************)
(* Program constants                                                       *)
(***************************************************************************)
PoolMax == 20         \* poolConfig.max

(***************************************************************************)
(* Text helpers: the String methods the code uses                          *)
(***************************************************************************)
LowerLetters ==
  << "a","b","c","d","e","f","g","h","i","j","k","l","m",
     "n","o","p","q","r","s","t","u","v","w","x","y","z","_" >>

UpperLetters ==
  << "A","B","C","D","E","F","G","H","I","J","K","L","M",
     "N","O","P","Q","R","S","T","U","V","W","X","Y","Z","_" >>

WhiteSpace == { " ", "\t", "\n" }

LowerChar(c) ==
  IF \E i \in 1..Len(UpperLetters) : UpperLetters[i] = c
  THEN LowerLetters[CHOOSE i \in 1..Len(UpperLetters) : UpperLetters[i] = c]
  ELSE c

UpperChar(c) ==
  IF \E i \in 1..Len(LowerLetters) : LowerLetters[i] = c
  THEN UpperLetters[CHOOSE i \in 1..Len(LowerLetters) : LowerLetters[i] = c]
  ELSE c

toLowerCase(s) == [i \in 1..Len(s) |-> LowerChar(s[i])]

toUpperCase(s) == [i \in 1..Len(s) |-> UpperChar(s[i])]

RECURSIVE TrimStart(_)
TrimStart(s) ==
  IF s # << >> /\ Head(s) \in WhiteSpace THEN TrimStart(Tail(s)) ELSE s

RECURSIVE TrimEnd(_)
TrimEnd(s) ==
  IF s # << >> /\ s[Len(s)] \in WhiteSpace
  THEN TrimEnd(SubSeq(s, 1, Len(s) - 1)) ELSE s

trim(s) == TrimEnd(TrimStart(s))

includes(s, k) ==
  \E i \in 0..(Len(s) - Len(k)) : SubSeq(s, i + 1, i + Len(k)) = k

RECURSIVE Join(_)
Join(s) == IF s = << >> THEN "" ELSE Head(s) \o Join(Tail(s))

\* obj.key of a JSON object: the value, or undefined when the key is absent.
Has(obj, key) == key \in DOMAIN obj

\* The JSON object with one more key.
With(obj, key, val) ==
  [k \in DOMAIN obj \cup {key} |-> IF k = key THEN val ELSE obj[k]]

EmptyObj == [k \in {} |-> ""]

(***************************************************************************)
(* Literals of the server code                                             *)
(***************************************************************************)
kwDrop     == << "d","r","o","p" >>
kwTruncate == << "t","r","u","n","c","a","t","e" >>
kwWhere    == << "w","h","e","r","e" >>
opSELECT   == << "S","E","L","E","C","T" >>
opINSERT   == << "I","N","S","E","R","T" >>
opUPDATE   == << "U","P","D","A","T","E" >>
opDELETE   == << "D","E","L","E","T","E" >>
opLIST     == << "L","I","S","T","_","T","A","B","L","E","S" >>
opDESCRIBE == << "D","E","S","C","R","I","B","E" >>

forbiddenKeywords == { kwDrop, kwTruncate }

\* SQL texts fixed by the code (runs of white space written as one blank).
sqlGetTables ==
  << "S", "E", "L", "E", "C", "T", " ", "t", "a", "b", "l", "e", "_", "n",
     "a", "m", "e", ",", " ", "t", "a", "b", "l", "e", "_", "t", "y", "p",
     "e", " ", "F", "R", "O", "M", " ", "i", "n", "f", "o", "r", "m", "a",
     "t", "i", "o", "n", "_", "s", "c", "h", "e", "m", "a", ".", "t", "a",
     "b", "l", "e", "s", " ", "W", "H", "E", "R", "E", " ", "t", "a", "b",
     "l", "e", "_", "s", "c", "h", "e", "m", "a", " ", "=", " ", "'", "p",
     "u", "b", "l", "i", "c", "'", " ", "O", "R", "D", "E", "R", " ", "B",
     "Y", " ", "t", "a", "b", "l", "e", "_", "n", "a", "m", "e" >>

sqlDescribe ==
  << "S", "E", "L", "E", "C", "T", " ", "c", "o", "l", "u", "m", "n", "_",
     "n", "a", "m", "e", ",", " ", "d", "a", "t", "a", "_", "t", "y", "p",
     "e", ",", " ", "c", "h", "a", "r", "a", "c", "t", "e", "r", "_", "m",
     "a", "x", "i", "m", "u", "m", "_", "l", "e", "n", "g", "t", "h", ",",
     " ", "c", "o", "l", "u", "m", "n", "_", "d", "e", "f", "a", "u", "l",
     "t", ",", " ", "i", "s", "_", "n", "u", "l", "l", "a", "b", "l", "e",
     " ", "F", "R", "O", "M", " ", "i", "n", "f", "o", "r", "m", "a", "t",
     "i", "o", "n", "_", "s", "c", "h", "e", "m", "a", ".", "c", "o", "l",
     "u", "m", "n", "s", " ", "W", "H", "E", "R", "E", " ", "t", "a", "b",
     "l", "e", "_", "n", "a", "m", "e", " ", "=", " ", "$", "1" >>


(***************************************************************************)
(* Messages                                                                *)
(***************************************************************************)
NoError          == ""
msgEmptyQuery    == "Query cannot be empty"
msgUnsafe        == "Unsafe query detected"
msgDeleteWhere   == "DELETE operations require a WHERE clause"
msgOpRequired    == "Operation type is required"
msgQueryRequired == "Query is required for this operation"
msgExecFailed    == "Query execution failed"
\* faults of the store driver (pg): pool.connect() and client.query()
msgConnectFault  == "timeout exceeded when trying to connect"
msgStoreFault    == "relation does not exist"
\* the TypeError of calling toUpperCase on a value that is not a string
msgNotAFunction  == "operation.toUpperCase is not a function"

(***************************************************************************)
(* State                                                                   *)
(***************************************************************************)
VARIABLES
  reqs,            \* server: POST /query requests in flight, by slot
  checkedOut,      \* server: pool clients checked out and not yet released
  children,        \* server: POST /api/execute executions, by slot
  runs,            \* client: invocations of the toolcall handler, by slot
  queryResult,     \* client: useState queryResult
  commandHistory,  \* client: useState commandHistory
  error,           \* client: useState error
  altairJson,      \* client: useState altairJson
  executing,       \* client: useState executing (ShellExecutorComponent)
  app              \* client: startup, mounting and toolcall subscriptions

serverVars == << reqs, checkedOut, children >>

clientVars ==
  << runs, queryResult, commandHistory, error, altairJson, executing, app >>

vars ==
  << reqs, checkedOut, children, runs, queryResult, commandHistory, error,
     altairJson, executing, app >>

ReqIds == 1..MaxInFlight

(***************************************************************************)
(* DatabaseService (dbService.ts)                                          *)
(***************************************************************************)
\* validateQuery: NoError when it returns, else the message it throws.
validateQuery_caseSensitive(query, operation) ==
  IF trim(query) = << >> THEN msgEmptyQuery
  ELSE LET sanitizedQuery == trim(query) IN
       IF \E keyword \in forbiddenKeywords : includes(sanitizedQuery, keyword)
       THEN msgUnsafe
       ELSE IF operation = opDELETE /\ ~includes(sanitizedQuery, kwWhere)
            THEN msgDeleteWhere
            ELSE NoError

validateQuery_noEmptyCheck(query, operation) ==
  LET sanitizedQuery == trim(toLowerCase(query)) IN
  IF \E keyword \in forbiddenKeywords : includes(sanitizedQuery, keyword)
  THEN msgUnsafe
  ELSE IF operation = opDELETE /\ ~includes(sanitizedQuery, kwWhere)
       THEN msgDeleteWhere
       ELSE NoError

validateQuery(query, operation) ==
  IF trim(query) = << >> THEN msgEmptyQuery
  ELSE LET sanitizedQuery == trim(toLowerCase(query)) IN
       IF \E keyword \in forbiddenKeywords : includes(sanitizedQuery, keyword)
       THEN msgUnsafe
       ELSE IF operation = opDELETE /\ ~includes(sanitizedQuery, kwWhere)
            THEN msgDeleteWhere
            ELSE NoError

\* formatResult: rowCount ?? 0
formatResult(result) ==
  [rows     |-> result.rows,
   rowCount |-> IF Has(result, "rowCount") THEN result.rowCount ELSE 0]

\* What client.query() may resolve with (a pg QueryResult).
StoreResults ==
  { [rows |-> << >>],
    [rows |-> << "row" >>, rowCount |-> 1] }

(***************************************************************************)
(* POST /query (routes.ts)                                                 *)
(***************************************************************************)
Falsy(obj, key) == ~Has(obj, key) \/ obj[key] = << >>

\* A JSON value of the body that is not a string: the number 7, written as
\* one token.  It is truthy and has no String methods.
jsonNumber == << "(number 7)" >>

IsString(v) == v # jsonNumber

Reply(status, body) == [status |-> status, body |-> body]

ErrorReply(status, message) == Reply(status, [error |-> message])

CatchReply(message) ==
  Reply(500, [error |-> msgExecFailed, details |-> message])

\* A statement handed to DatabaseService.executeQuery.
Plan(sql, params, safe) ==
  [kind |-> "exec", sql |-> sql, params |-> params, safe |-> safe]

Immediate(reply) == [kind |-> "reply", reply |-> reply]

bodyParams(body) == IF Has(body, "params") THEN body.params ELSE << >>

\* safeExecute up to the call of executeQuery.
safeExecuteStart(query, operation, params) ==
  LET thrown == validateQuery(query, operation) IN
  IF thrown # NoError THEN Immediate(CatchReply(thrown))
  ELSE Plan(query, params, TRUE)

\* The handler up to its first await of the pool.
postQueryStart_inlineTable(body) ==
  IF Falsy(body, "operation") THEN Immediate(ErrorReply(400, msgOpRequired))
  ELSE IF Falsy(body, "query") /\ body.operation # opLIST
       THEN Immediate(ErrorReply(400, msgQueryRequired))
  ELSE IF ~IsString(body.operation)
       THEN Immediate(CatchReply(msgNotAFunction))
  ELSE LET OP == toUpperCase(body.operation) IN
       IF OP \in { opSELECT, opINSERT, opUPDATE, opDELETE }
       THEN safeExecuteStart(body.query, body.operation, bodyParams(body))
       ELSE IF OP = opLIST THEN Plan(sqlGetTables, << >>, FALSE)
       ELSE IF OP = opDESCRIBE
            THEN safeExecuteStart(sqlDescribe \o body.query, opSELECT, << >>)
       ELSE Immediate(ErrorReply(400,
                "Unsupported operation: " \o Join(body.operation)))

postQueryStart(body) ==
  IF Falsy(body, "operation") THEN Immediate(ErrorReply(400, msgOpRequired))
  ELSE IF Falsy(body, "query") /\ body.operation # opLIST
       THEN Immediate(ErrorReply(400, msgQueryRequired))
  ELSE IF ~IsString(body.operation)
       THEN Immediate(CatchReply(msgNotAFunction))
  ELSE LET OP == toUpperCase(body.operation) IN
       IF OP \in { opSELECT, opINSERT, opUPDATE, opDELETE }
       THEN safeExecuteStart(body.query, body.operation, bodyParams(body))
       ELSE IF OP = opLIST THEN Plan(sqlGetTables, << >>, FALSE)
       ELSE IF OP = opDESCRIBE
            THEN safeExecuteStart(sqlDescribe, opSELECT, << body.query >>)
       ELSE Immediate(ErrorReply(400,
                "Unsupported operation: " \o Join(body.operation)))

\* The reply once executeQuery has thrown `message`.
faultReply(plan, message) ==
  IF plan.safe THEN CatchReply(msgExecFailed \o ": " \o message)
  ELSE CatchReply(message)

okReply(result) == Reply(200, formatResult(result))

IdleReq ==
  [pc |-> "idle", body |-> EmptyObj, plan |-> Plan(<< >>, << >>, FALSE),
   acquired |-> 0, released |-> 0, reply |-> Reply(0, EmptyObj)]

Received(body) ==
  LET start == postQueryStart(body) IN
  IF start.kind = "reply"
  THEN [IdleReq EXCEPT !.pc = "replied", !.body = body, !.reply = start.reply]
  ELSE [IdleReq EXCEPT !.pc = "connecting", !.body = body, !.plan = start]

\* executeQuery after client.query() settled: the finally block releases.
Settled_leakOnFault(req, ok, result) ==
  IF ok
  THEN [req EXCEPT !.pc = "replied", !.released = @ + 1,
                   !.reply = okReply(result)]
  ELSE [req EXCEPT !.pc = "replied",
                   !.reply = faultReply(req.plan, msgStoreFault)]

Settled(req, ok, result) ==
  IF ok
  THEN [req EXCEPT !.pc = "replied", !.released = @ + 1,
                   !.reply = okReply(result)]
  ELSE [req EXCEPT !.pc = "replied", !.released = @ + 1,
                   !.reply = faultReply(req.plan, msgStoreFault)]

(***************************************************************************)
(* Server actions                                                          *)
(***************************************************************************)
\* A request arrives and runs to its reply or to `await pool.connect()`.
Receive(r, body) ==
  /\ reqs[r].pc = "idle"
  /\ reqs' = [reqs EXCEPT ![r] = Received(body)]
  /\ UNCHANGED << checkedOut, children, clientVars >>

Connect_neverRejects(r, ok) ==
  /\ reqs[r].pc = "connecting"
  /\ ok
  /\ checkedOut < PoolMax
  /\ reqs' = [reqs EXCEPT ![r].pc = "querying", ![r].acquired = @ + 1]
  /\ checkedOut' = checkedOut + 1
  /\ UNCHANGED << children, clientVars >>

Connect_unbounded(r, ok) ==
  /\ reqs[r].pc = "connecting"
  /\ IF ok
     THEN /\ reqs' = [reqs EXCEPT ![r].pc = "querying", ![r].acquired = @ + 1]
          /\ checkedOut' = checkedOut + 1
     ELSE /\ reqs' = [reqs EXCEPT ![r].pc = "replied",
                        ![r].reply = faultReply(reqs[r].plan, msgConnectFault)]
          /\ UNCHANGED checkedOut
  /\ UNCHANGED << children, clientVars >>

\* pool.connect() resolves with a client, or rejects.
Connect(r, ok) ==
  /\ reqs[r].pc = "connecting"
  /\ IF ok
     THEN /\ checkedOut < PoolMax
          /\ reqs' = [reqs EXCEPT ![r].pc = "querying", ![r].acquired = @ + 1]
          /\ checkedOut' = checkedOut + 1
     ELSE /\ reqs' = [reqs EXCEPT ![r].pc = "replied",
                        ![r].reply = faultReply(reqs[r].plan, msgConnectFault)]
          /\ UNCHANGED checkedOut
  /\ UNCHANGED << children, clientVars >>

\* client.query() settles; the client is released; the reply is written.
QueryDone(r, ok, result) ==
  /\ reqs[r].pc = "querying"
  /\ reqs' = [reqs EXCEPT ![r] = Settled(reqs[r], ok, result)]
  /\ checkedOut' = checkedOut - (reqs'[r].released - reqs[r].released)
  /\ UNCHANGED << children, clientVars >>

\* The reply has been written to the socket; the slot is free again.
Respond(r) ==
  /\ reqs[r].pc = "replied"
  /\ reqs' = [reqs EXCEPT ![r] = IdleReq]
  /\ UNCHANGED << checkedOut, children, clientVars >>


(***************************************************************************)
(* Inputs                                                                  *)
(***************************************************************************)
\* "SELECT 1"
qSelect ==
  << "S", "E", "L", "E", "C", "T", " ", "1" >>

\* "DROP TABLE x"
qDropUpper ==
  << "D", "R", "O", "P", " ", "T", "A", "B", "L", "E", " ", "x" >>

\* "DrOp table x"
qDropMixed ==
  << "D", "r", "O", "p", " ", "t", "a", "b", "l", "e", " ", "x" >>

\* "select dropout from t"
qDropout ==
  << "s", "e", "l", "e", "c", "t", " ", "d", "r", "o", "p", "o", "u", "t",
     " ", "f", "r", "o", "m", " ", "t" >>

\* "Truncate t"
qTruncate ==
  << "T", "r", "u", "n", "c", "a", "t", "e", " ", "t" >>

\* "delete from t"
qDelete ==
  << "d", "e", "l", "e", "t", "e", " ", "f", "r", "o", "m", " ", "t" >>

\* "DELETE FROM t WHERE id=1"
qDeleteWhere ==
  << "D", "E", "L", "E", "T", "E", " ", "F", "R", "O", "M", " ", "t", " ",
     "W", "H", "E", "R", "E", " ", "i", "d", "=", "1" >>

\* "select"
opSelectLower ==
  << "s", "e", "l", "e", "c", "t" >>

\* "delete"
opDeleteLower ==
  << "d", "e", "l", "e", "t", "e" >>

\* "describe"
opDescribeLower ==
  << "d", "e", "s", "c", "r", "i", "b", "e" >>

\* "list_tables"
opListLower ==
  << "l", "i", "s", "t", "_", "t", "a", "b", "l", "e", "s" >>

\* "merge"
opMerge ==
  << "m", "e", "r", "g", "e" >>

\* "users"
qUsers ==
  << "u", "s", "e", "r", "s" >>

qEmpty == << >>

qBlank == << " ", " " >>

QueryTexts ==
  { qSelect, qDropUpper, qDropMixed, qDropout, qTruncate, qDelete,
    qDeleteWhere, qUsers, qEmpty, qBlank }

Operations ==
  { opSelectLower, opDeleteLower, opDELETE, opDescribeLower, opListLower,
    opLIST, opMerge, jsonNumber }

\* Bodies of POST /query: {query, operation}.
RequestBodies ==
  { [query |-> q, operation |-> o] : q \in QueryTexts, o \in Operations }
  \cup { [query |-> qSelect], [operation |-> opSelectLower], EmptyObj,
         [operation |-> opLIST], [operation |-> opListLower],
         [operation |-> opMerge], [operation |-> jsonNumber] }

(***************************************************************************)
(* Server specification                                                    *)
(***************************************************************************)
\* No execution: nothing spawned, no timer.
IdleChild ==
  [pc |-> "idle", shell |-> "none", command |-> "none", code |-> 0,
   background |-> FALSE, pipes |-> FALSE, timer |-> "off", resolved |-> 0,
   result |-> EmptyObj]

ServerInit ==
  /\ reqs = [r \in ReqIds |-> IdleReq]
  /\ checkedOut = 0
  /\ children = [e \in ReqIds |-> IdleChild]




(***************************************************************************)
(* Command executor: POST /api/execute (server/index.ts)                   *)
(***************************************************************************)
\* ExecuteFileTool.execute: the exec callback always resolves.  `proc` is
\* how the child ended; exitCode is error?.code, absent when there is no
\* error.
\* The JSON tokens of the values of exitCode.
Null == "null"

JsonNumber(n) == ToString(n)

\* The child exited by itself with `code`.
Exited(code, stdout, stderr) ==
  [code |-> code, signal |-> "", stdout |-> stdout, stderr |-> stderr]

\* The child was ended by the signal exec sends when the timeout elapses:
\* it has no exit code.
Killed(stdout, stderr) ==
  [signal |-> "SIGTERM", stdout |-> stdout, stderr |-> stderr]

\* The `error` argument of the exec callback is set.
ExecError(proc) == proc.signal # "" \/ proc.code # 0

\* error?.code
ErrorCode(proc) == IF proc.signal # "" THEN Null ELSE JsonNumber(proc.code)

execute(proc) ==
  LET result == [success |-> ~ExecError(proc),
                 output  |-> proc.stdout,
                 error   |-> proc.stderr]
  IN IF ExecError(proc) THEN With(result, "exitCode", ErrorCode(proc))
     ELSE result

\* How a child process may end.
ProcOutcomes ==
  { Exited(0, "hi\n", ""),
    Exited(1, "", "not found"),
    Exited(1, "", ""),
    Killed("", "") }

\* timeout = 30000 of execute's signature and of executeCommand's body.
DefaultTimeout == 30000

\* req.body.timeout: the client's value, or 0 (exec then sets no timer).
Timeouts == { 0, DefaultTimeout }

\* How the exec callback sees the shell it spawned.
ShellOutcome(child) ==
  IF child.shell = "killed" THEN Killed("", "")
  ELSE Exited(child.code, "", "")

\* app.post('/api/execute') calls execute: exec spawns a shell that runs the
\* command line as a process of its own, and arms a timer when timeout > 0.
\* background: the shell does not wait for the command.  pipes: the command
\* keeps the stdout/stderr pipes it inherits open.
PostExecute(e, timeout, background, pipes) ==
  /\ children[e].pc = "idle"
  /\ children' = [children EXCEPT ![e] =
       [IdleChild EXCEPT !.pc = "running", !.shell = "alive",
                         !.command = "running", !.background = background,
                         !.pipes = pipes,
                         !.timer = IF timeout > 0 THEN "armed" ELSE "off"]]
  /\ UNCHANGED << reqs, checkedOut, clientVars >>

\* The command's process ends by itself.
CommandExits(e, code) ==
  /\ children[e].command = "running"
  /\ children' = [children EXCEPT ![e].command = "exited",
                                  ![e].code = IF children[e].shell = "alive"
                                                 /\ ~children[e].background
                                              THEN code ELSE @]
  /\ UNCHANGED << reqs, checkedOut, clientVars >>

\* The shell ends by itself, with the status of the command it waited for;
\* exec clears the timer.
ShellExits(e) ==
  /\ children[e].shell = "alive"
  /\ children[e].command # "running" \/ children[e].background
  /\ children' = [children EXCEPT ![e].shell = "exited", ![e].timer = "off"]
  /\ UNCHANGED << reqs, checkedOut, clientVars >>

\* The timeout elapses: exec signals the process it spawned, the shell.
TimerFires(e) ==
  /\ children[e].timer = "armed"
  /\ children[e].shell = "alive"
  /\ children' = [children EXCEPT ![e].shell = "killed", ![e].timer = "fired"]
  /\ UNCHANGED << reqs, checkedOut, clientVars >>

\* The spawned process has ended and its stdio pipes are closed: the exec
\* callback runs, resolve(...) settles execute and res.json sends it.
Close(e) ==
  /\ children[e].pc = "running"
  /\ children[e].shell \in { "exited", "killed" }
  /\ ~(children[e].command = "running" /\ children[e].pipes)
  /\ children' = [children EXCEPT ![e].pc = "reported",
                                  ![e].resolved = @ + 1,
                                  ![e].result = execute(ShellOutcome(children[e]))]
  /\ UNCHANGED << reqs, checkedOut, clientVars >>

(***************************************************************************)
(* Client: calls and the channel                                           *)
(***************************************************************************)
Undefined == "(undefined)"

\* args.key when destructured: the value or undefined.
Arg(args, key) == IF Has(args, key) THEN args[key] ELSE Undefined

\* `${value}` of a template literal.
Str(value) == IF value = Undefined THEN "undefined" ELSE value

FunctionCall(name, args, id) == [name |-> name, args |-> args, id |-> id]

\* One element of functionResponses.
FunctionResponse(id, response) == [id |-> id, response |-> response]

Failure(message) == [success |-> FALSE, error |-> message]

\* client.sendToolResponse(...): the invocation is recorded with whether it
\* returned (ok) or threw.
sendToolResponse(sent, functionResponses, ok) ==
  Append(sent, [functionResponses |-> functionResponses, ok |-> ok])

msgSendFault    == "WebSocket is not connected"
msgFetchFault   == "Failed to fetch"
msgUnknownError == "Unknown error occurred"
msgNoArgs       == "Cannot destructure property of undefined"

UnknownFunction(name) == "Unknown function: " \o name

(***************************************************************************)
(* Client: backends as seen through fetch                                  *)
(***************************************************************************)
\* The body executeQuery posts: JSON.stringify({query, operation, params}).
queryBody(args) ==
  [k \in DOMAIN args \cap { "query", "operation", "params" } |-> args[k]]

\* The reply of POST /query to `body` when the store behaves as `store`.
postQuery(body, store) ==
  LET start == postQueryStart(body) IN
  IF start.kind = "reply" THEN start.reply
  ELSE IF store.kind = "connectFault" THEN faultReply(start, msgConnectFault)
  ELSE IF store.kind = "storeFault" THEN faultReply(start, msgStoreFault)
  ELSE okReply(store.result)

StoreOutcomes ==
  { [kind |-> "connectFault"], [kind |-> "storeFault"] }
  \cup { [kind |-> "rows", result |-> res] : res \in StoreResults }

\* executeQuery once fetch resolved with `reply`: the returned JSON, or the
\* message of the Error it throws.
executeQuery(reply) ==
  IF reply.status = 200
  THEN [thrown |-> FALSE, value |-> reply.body]
  ELSE [thrown |-> TRUE,
        message |-> IF Has(reply.body, "details") THEN reply.body.details
                    ELSE IF Has(reply.body, "error") THEN reply.body.error
                    ELSE msgExecFailed]

\* The command executeCommand posts: `${shell} /c ${command}`.
commandLine(shell, command) == Str(shell) \o " /c " \o Str(command)

(***************************************************************************)
(* Client: shared tool handlers (tools/toolHandlers)                       *)
(***************************************************************************)
\* The component state the handlers write through the setters.
UI ==
  [queryResult    |-> queryResult,
   commandHistory |-> commandHistory,
   error          |-> error,
   altairJson     |-> altairJson]

NullResult == [null |-> TRUE]

\* Each handler yields the state after its setters ran and its ToolResponse.
Handled(ui, response) == [ui |-> ui, response |-> response]

handleDatabaseQuery_genericMessage(ui, net, reply) ==
  LET res == IF net THEN executeQuery(reply)
             ELSE [thrown |-> TRUE, message |-> msgFetchFault]
  IN IF res.thrown
     THEN Handled([ui EXCEPT !.error = "Database query failed"],
                  Failure("Database query failed"))
     ELSE Handled([ui EXCEPT !.queryResult = [rows |-> res.value.rows]],
                  [success |-> TRUE, output |-> res.value])

handleDatabaseQuery_clearsResult(ui, net, reply) ==
  LET res == IF net THEN executeQuery(reply)
             ELSE [thrown |-> TRUE, message |-> msgFetchFault]
  IN IF res.thrown
     THEN Handled([ui EXCEPT !.error = res.message,
                             !.queryResult = [rows |-> << >>]],
                  Failure(res.message))
     ELSE Handled([ui EXCEPT !.queryResult = [rows |-> res.value.rows]],
                  [success |-> TRUE, output |-> res.value])

\* handleDatabaseQuery after `await executeQuery(...)` settled.
\* net = FALSE: fetch itself rejected.
handleDatabaseQuery(ui, net, reply) ==
  LET res == IF net THEN executeQuery(reply)
             ELSE [thrown |-> TRUE, message |-> msgFetchFault]
  IN IF res.thrown
     THEN Handled([ui EXCEPT !.error = res.message], Failure(res.message))
     ELSE Handled([ui EXCEPT !.queryResult = [rows |-> res.value.rows]],
                  [success |-> TRUE, output |-> res.value])

\* The label of a history entry: `${shell}: ${command}`.
commandLabel(shell, command) == Str(shell) \o ": " \o Str(command)

\* result.output || result.error
outputOrError(result) ==
  IF Has(result, "output") /\ result.output # "" THEN result.output
  ELSE IF Has(result, "error") THEN result.error ELSE Undefined

\* { success: result.success, output: result.output, error: result.error }
shellToolResponse(result) ==
  [k \in DOMAIN result \cap { "success", "output", "error" } |-> result[k]]

\* handleShellCommand after `await executeCommand(...)` settled.
handleShellCommand(ui, shell, command, net, result) ==
  IF ~net
  THEN Handled([ui EXCEPT !.error = msgFetchFault], Failure(msgFetchFault))
  ELSE LET newEntry == [command |-> commandLabel(shell, command),
                        output  |-> outputOrError(result)]
       IN Handled([ui EXCEPT !.commandHistory = Append(@, newEntry)],
                  shellToolResponse(result))

handleAltairVisualization_parsing(ui, jsonGraph) ==
  IF jsonGraph = "{}"
  THEN Handled([ui EXCEPT !.altairJson = jsonGraph], [success |-> TRUE])
  ELSE Handled([ui EXCEPT !.error = "Visualization failed"],
               Failure("Visualization failed"))

handleAltairVisualization_clearsError(ui, jsonGraph) ==
  Handled([ui EXCEPT !.altairJson = jsonGraph, !.error = ""],
          [success |-> TRUE])

handleAltairVisualization(ui, jsonGraph) ==
  Handled([ui EXCEPT !.altairJson = jsonGraph], [success |-> TRUE])

\* What one handleToolCall leaves behind: the component state, the send
\* invocations made so far for the batch, and whether it threw.
Outcome(ui, sent, thrown) == [ui |-> ui, sent |-> sent, thrown |-> thrown]

catchBlock_noSend(ui, sent, id, message, ok) ==
  Outcome([ui EXCEPT !.error = message], sent, FALSE)

\* The catch block of handleToolCall: setError, then send a Failure.
\* A fault of this send leaves handleToolCall.
catchBlock(ui, sent, id, message, ok) ==
  Outcome([ui EXCEPT !.error = message],
          sendToolResponse(sent,
            << FunctionResponse(id, [output |-> Failure(message)]) >>, ok),
          ~ok)

\* The send at the end of the try block; its fault is caught like any other.
trySend(h, sent, id, ok1, ok2) ==
  LET functionResponses ==
        << FunctionResponse(id, [output |-> h.response]) >>
  IN IF ok1
     THEN Outcome(h.ui, sendToolResponse(sent, functionResponses, TRUE), FALSE)
     ELSE catchBlock(h.ui, sendToolResponse(sent, functionResponses, FALSE),
                     id, msgSendFault, ok2)

KnownNames == { "query_database", "execute_shell_command", "render_altair" }

(***************************************************************************)
(* Client: the App dispatcher (onToolCall + handleToolCall)                *)
(***************************************************************************)
RunIds == { "r1", "r2" }

FreeRun ==
  [pc |-> "free", batch |-> << >>, i |-> 0, sent |-> << >>, backend |-> << >>]

\* A backend request made on behalf of call i of the batch.
QueryRequest(i, body) == [kind |-> "query", call |-> i, body |-> body]

ExecuteRequest_asQuery(i, command) ==
  [kind |-> "query", call |-> i, command |-> command]

ExecuteRequest(i, command) ==
  [kind |-> "execute", call |-> i, command |-> command]

\* The request log once fetch settled for its last entry: the JSON received,
\* or net = FALSE when fetch rejected.
Answered(backend, net, json) ==
  [backend EXCEPT ![Len(backend)] =
     With(@, "answer", IF net THEN [net |-> TRUE, json |-> json]
                       ELSE [net |-> FALSE])]

Advance_continueOnThrow(r, out, backend) ==
  LET run == runs[r] IN
  /\ runs' = [runs EXCEPT
       ![r].sent = out.sent,
       ![r].backend = backend,
       ![r].pc   = IF run.i = Len(run.batch) THEN "done" ELSE "dispatch",
       ![r].i    = run.i + 1]
  /\ queryResult' = out.ui.queryResult
  /\ commandHistory' = out.ui.commandHistory
  /\ error' = out.ui.error
  /\ altairJson' = out.ui.altairJson

\* The for loop of onToolCall after handleToolCall(batch[i]) ended with
\* `out`: next call, end of the loop, or the exception leaves onToolCall.
Advance(r, out, backend) ==
  LET run == runs[r] IN
  /\ runs' = [runs EXCEPT
       ![r].sent = out.sent,
       ![r].backend = backend,
       ![r].pc   = IF out.thrown THEN "aborted"
                   ELSE IF run.i = Len(run.batch) THEN "done"
                   ELSE "dispatch",
       ![r].i    = IF out.thrown THEN run.i ELSE run.i + 1]
  /\ queryResult' = out.ui.queryResult
  /\ commandHistory' = out.ui.commandHistory
  /\ error' = out.ui.error
  /\ altairJson' = out.ui.altairJson

\* The channel emits "toolcall" with a batch: onToolCall starts its loop.
onToolCall(r, batch) ==
  /\ runs[r].pc = "free"
  /\ runs' = [runs EXCEPT ![r] =
       [FreeRun EXCEPT !.pc = IF batch = << >> THEN "done" ELSE "dispatch",
                       !.batch = batch, !.i = 1]]
  /\ UNCHANGED << serverVars, app, queryResult, commandHistory, error,
                  altairJson, executing >>

\* handleToolCall(batch[i]) up to its first await, or to its end when the
\* call needs no backend.
handleToolCall(r, ok1, ok2) ==
  LET run  == runs[r]
      call == run.batch[run.i]
  IN
  /\ run.pc = "dispatch"
  /\ IF call.name \in KnownNames /\ ~Has(call, "args")
     THEN Advance(r, catchBlock(UI, run.sent, call.id, msgNoArgs, ok1),
                  run.backend)
     ELSE IF call.name = "query_database"
     THEN /\ runs' = [runs EXCEPT ![r].pc = "awaitQuery",
                 ![r].backend =
                     Append(@, QueryRequest(run.i, queryBody(call.args)))]
          /\ UNCHANGED << queryResult, commandHistory, error, altairJson >>
     ELSE IF call.name = "execute_shell_command"
     THEN /\ runs' = [runs EXCEPT ![r].pc = "awaitShell",
                 ![r].backend =
                     Append(@, ExecuteRequest(run.i,
                        commandLine(Arg(call.args, "shell"),
                                    Arg(call.args, "command"))))]
          /\ UNCHANGED << queryResult, commandHistory, error, altairJson >>
     ELSE IF call.name = "render_altair"
     THEN Advance(r, trySend(
            handleAltairVisualization(UI, Arg(call.args, "json_graph")),
            run.sent, call.id, ok1, ok2), run.backend)
     ELSE Advance(r, catchBlock(UI, run.sent, call.id,
                                UnknownFunction(call.name), ok1), run.backend)
  /\ UNCHANGED << serverVars, app, executing >>

\* `await executeQuery(...)` settles and handleToolCall runs to its end.
QueryReturns(r, net, store, ok1, ok2) ==
  LET run  == runs[r]
      call == run.batch[run.i]
      body == run.backend[Len(run.backend)].body
  IN
  /\ run.pc = "awaitQuery"
  /\ Advance(r, trySend(handleDatabaseQuery(UI, net, postQuery(body, store)),
                        run.sent, call.id, ok1, ok2),
             Answered(run.backend, net, postQuery(body, store)))
  /\ UNCHANGED << serverVars, app, executing >>

\* `await executeCommand(...)` settles and handleToolCall runs to its end.
ShellReturns(r, net, proc, ok1, ok2) ==
  LET run  == runs[r]
      call == run.batch[run.i]
  IN
  /\ run.pc = "awaitShell"
  /\ Advance(r, trySend(
        handleShellCommand(UI, Arg(call.args, "shell"),
                           Arg(call.args, "command"), net, execute(proc)),
        run.sent, call.id, ok1, ok2),
        Answered(run.backend, net, execute(proc)))
  /\ UNCHANGED << serverVars, app, executing >>

(***************************************************************************)
(* Client inputs                                                           *)
(***************************************************************************)
CallId(i) == "call-" \o ToString(i)

Template(name, args) == [name |-> name, args |-> args]

\* The batch whose calls are the templates `ts`, ids given by the channel.
MakeBatch(ts) == [i \in 1..Len(ts) |-> With(ts[i], "id", CallId(i))]

SeqsUpTo(T, n) == UNION { [1..k -> T] : k \in 0..n }

tQuery  == Template("query_database",
                    [query |-> qSelect, operation |-> opSelectLower])
tShell  == Template("execute_shell_command",
                    [shell |-> "cmd", command |-> "dir"])
tAltair == Template("render_altair", [json_graph |-> "{}"])
tBogus  == Template("bogus", EmptyObj)
tAltairText == Template("render_altair", [json_graph |-> "not json"])

AppTemplates == { tQuery, tShell, tAltair, tAltairText, tBogus }

AppBatches == { MakeBatch(ts) : ts \in SeqsUpTo(AppTemplates, MaxCalls) }

(***************************************************************************)
(* Specification of the App dispatcher                                     *)
(***************************************************************************)
\* Startup and mounting (index.tsx, the consumer's useEffect).  `listeners`
\* counts, per channel client, the onToolCall closures of the consumer that
\* are registered for "toolcall"; `emitted` counts the events emitted.
Clients == { "c1", "c2" }

Credentials == { Undefined, "", "key" }

AtStart(key) ==
  [phase |-> "start", credential |-> key, client |-> "c1",
   listeners |-> [c \in Clients |-> 0], emitted |-> 0]

\* client.on("toolcall", onToolCall)
Subscribe(a, c) == [a EXCEPT !.listeners[c] = @ + 1]

\* client.off("toolcall", onToolCall)
Unsubscribe_leak(a, c) == a

Unsubscribe(a, c) ==
  [a EXCEPT !.listeners[c] = IF @ > 0 THEN @ - 1 ELSE 0]

\* The page with the consumer mounted on the provider's client.
Mounted == [Subscribe(AtStart("key"), "c1") EXCEPT !.phase = "mounted"]

ClientInit ==
  /\ app = Mounted
  /\ runs = [r \in RunIds |-> FreeRun]
  /\ queryResult = NullResult
  /\ commandHistory = << >>
  /\ error = ""
  /\ altairJson = ""
  /\ executing = FALSE

Init == ServerInit /\ ClientInit

Next ==
  \/ \E batch \in AppBatches : onToolCall("r1", batch)
  \/ \E ok1, ok2 \in BOOLEAN : handleToolCall("r1", ok1, ok2)
  \/ \E net, ok1, ok2 \in BOOLEAN, store \in StoreOutcomes :
        QueryReturns("r1", net, store, ok1, ok2)
  \/ \E net, ok1, ok2 \in BOOLEAN, proc \in ProcOutcomes :
        ShellReturns("r1", net, proc, ok1, ok2)

Spec == Init /\ [][Next]_vars

(***************************************************************************)
(* Client: the App whose handleToolCall sets the state itself              *)
(* (Database.tsx:454-510)                                                  *)
(***************************************************************************)
\* handleDatabaseQuery and handleShellCommand of ./tools, called with the
\* call's arguments only: they cannot reach the setters of the component
\* and return the ToolResponse of the backend's answer.
toolsHandleDatabaseQuery(net, reply) ==
  handleDatabaseQuery(UI, net, reply).response

toolsHandleShellCommand(net, result) ==
  IF net THEN shellToolResponse(result) ELSE Failure(msgFetchFault)

\* response.error ?? ''
errorOrEmpty(response) ==
  IF Has(response, "error") THEN response.error ELSE ""

\* A value put into the history that is a string, not an entry object.
TextItem(text) == [text |-> text]

\* case "query_database", after the await.
afterDatabaseQuery(ui, response) ==
  IF response.success
  THEN Handled([ui EXCEPT !.queryResult = [rows |-> response.output.rows]],
               response)
  ELSE Handled([ui EXCEPT !.error = errorOrEmpty(response)], response)

\* case "execute_shell_command", after the await.
afterShellCommand(ui, response) ==
  IF response.success
  THEN Handled([ui EXCEPT !.commandHistory =
                   Append(@, TextItem(response.output))], response)
  ELSE Handled([ui EXCEPT !.error = errorOrEmpty(response)], response)

InlineQueryReturns(r, net, store, ok1, ok2) ==
  LET run  == runs[r]
      call == run.batch[run.i]
      body == run.backend[Len(run.backend)].body
      response == toolsHandleDatabaseQuery(net, postQuery(body, store))
  IN
  /\ run.pc = "awaitQuery"
  /\ Advance(r, trySend(afterDatabaseQuery(UI, response),
                        run.sent, call.id, ok1, ok2),
             Answered(run.backend, net, postQuery(body, store)))
  /\ UNCHANGED << serverVars, app, executing >>

InlineShellReturns(r, net, proc, ok1, ok2) ==
  LET run  == runs[r]
      call == run.batch[run.i]
      response == toolsHandleShellCommand(net, execute(proc))
  IN
  /\ run.pc = "awaitShell"
  /\ Advance(r, trySend(afterShellCommand(UI, response),
                        run.sent, call.id, ok1, ok2),
             Answered(run.backend, net, execute(proc)))
  /\ UNCHANGED << serverVars, app, executing >>

\* onToolCall and the part of handleToolCall before its await are those of
\* the dispatcher above.
InlineNext ==
  \/ \E batch \in AppBatches : onToolCall("r1", batch)
  \/ \E ok1, ok2 \in BOOLEAN : handleToolCall("r1", ok1, ok2)
  \/ \E net, ok1, ok2 \in BOOLEAN, store \in StoreOutcomes :
        InlineQueryReturns("r1", net, store, ok1, ok2)
  \/ \E net, ok1, ok2 \in BOOLEAN, proc \in ProcOutcomes :
        InlineShellReturns("r1", net, proc, ok1, ok2)

SpecInline == Init /\ [][InlineNext]_vars

(***************************************************************************)
(* Specification of two overlapping invocations of onToolCall              *)
(***************************************************************************)
ConcBatches ==
  { MakeBatch(ts) : ts \in SeqsUpTo({ tQuery, tBogus }, MaxCalls) }
  \ { << >> }

\* The store answers with a row; a call fails when fetch rejects.
ConcStores ==
  { [kind |-> "rows", result |-> [rows |-> << "row" >>, rowCount |-> 1]] }

\* A first batch is delivered; a second one while the first is in progress.
ConcNext ==
  \/ \E batch \in ConcBatches : onToolCall("r1", batch)
  \/ \E batch \in ConcBatches :
        runs["r1"].pc \in { "dispatch", "awaitQuery" }
        /\ onToolCall("r2", batch)
  \/ \E r \in RunIds, ok1, ok2 \in BOOLEAN : handleToolCall(r, ok1, ok2)
  \/ \E r \in RunIds, net, ok1, ok2 \in BOOLEAN, store \in ConcStores :
        QueryReturns(r, net, store, ok1, ok2)

SpecConc == Init /\ [][ConcNext]_vars

(***************************************************************************)
(* Client: startup, mounting and the toolcall subscription                 *)
(***************************************************************************)
\* index.tsx evaluated: the credential check throws, or root.render().
Startup_noCheck ==
  /\ app.phase = "start"
  /\ app' = [app EXCEPT !.phase = "rendered"]
  /\ UNCHANGED << serverVars, runs, queryResult, commandHistory, error,
                  altairJson, executing >>

Startup ==
  /\ app.phase = "start"
  /\ app' = [app EXCEPT !.phase =
               IF app.credential \in { Undefined, "" }
               THEN "failed" ELSE "rendered"]
  /\ UNCHANGED << serverVars, runs, queryResult, commandHistory, error,
                  altairJson, executing >>

\* The effect runs after the commit: it registers a new onToolCall.
EffectRuns ==
  /\ app.phase = "rendered"
  /\ app' = [Subscribe(app, app.client) EXCEPT !.phase = "mounted"]
  /\ UNCHANGED << serverVars, runs, queryResult, commandHistory, error,
                  altairJson, executing >>

\* The dependency [client] changed: the cleanup of the previous effect
\* runs, then the effect with the new client.
ClientChanges(c) ==
  /\ app.phase = "mounted"
  /\ c # app.client
  /\ app' = [Subscribe(Unsubscribe(app, app.client), c) EXCEPT !.client = c]
  /\ UNCHANGED << serverVars, runs, queryResult, commandHistory, error,
                  altairJson, executing >>

\* The consumer unmounts: the cleanup of its effect runs.
Unmount ==
  /\ app.phase = "mounted"
  /\ app' = [Unsubscribe(app, app.client) EXCEPT !.phase = "unmounted"]
  /\ UNCHANGED << serverVars, runs, queryResult, commandHistory, error,
                  altairJson, executing >>

\* The consumer is rendered again (StrictMode, or its parent shows it again).
Remount ==
  /\ app.phase = "unmounted"
  /\ app' = [app EXCEPT !.phase = "rendered"]
  /\ UNCHANGED << serverVars, runs, queryResult, commandHistory, error,
                  altairJson, executing >>

\* The batch of the n-th "toolcall" event: one query_database call.
Delivery(n) == << With(tQuery, "id", CallId(n)) >>

\* Channel client c emits "toolcall": every registered onToolCall is called
\* with the batch and starts its loop.
Emit(c) ==
  LET batch == Delivery(app.emitted + 1)
      free  == { r \in RunIds : runs[r].pc = "free" }
  IN
  /\ app.listeners[c] >= 1
  /\ app.emitted < MaxEmits
  /\ \E S \in SUBSET free :
       /\ Cardinality(S) = app.listeners[c]
       /\ runs' = [r \in RunIds |->
            IF r \in S
            THEN [FreeRun EXCEPT !.pc = "dispatch", !.batch = batch, !.i = 1]
            ELSE runs[r]]
  /\ app' = [app EXCEPT !.emitted = @ + 1]
  /\ UNCHANGED << serverVars, queryResult, commandHistory, error,
                  altairJson, executing >>

LifeInit ==
  /\ ServerInit
  /\ \E key \in Credentials : app = AtStart(key)
  /\ runs = [r \in RunIds |-> FreeRun]
  /\ queryResult = NullResult
  /\ commandHistory = << >>
  /\ error = ""
  /\ altairJson = ""
  /\ executing = FALSE

LifeNext ==
  \/ Startup
  \/ EffectRuns
  \/ \E c \in Clients : ClientChanges(c)
  \/ Unmount
  \/ Remount
  \/ \E c \in Clients : Emit(c)
  \/ \E r \in RunIds, ok1, ok2 \in BOOLEAN : handleToolCall(r, ok1, ok2)
  \/ \E r \in RunIds, net, ok1, ok2 \in BOOLEAN, store \in StoreOutcomes :
        QueryReturns(r, net, store, ok1, ok2)

SpecLife == LifeInit /\ [][LifeNext]_vars

(***************************************************************************)
(* Client: ShellExecutorComponent                                          *)
(***************************************************************************)
\* functionCalls.find(fc => fc.name === name): its index, 0 for undefined.
find(batch, name) ==
  IF \E i \in 1..Len(batch) : batch[i].name = name
  THEN CHOOSE i \in 1..Len(batch) :
         /\ batch[i].name = name
         /\ \A j \in 1..(i - 1) : batch[j].name # name
  ELSE 0

\* The end of the component's onToolCall: state, sends, thrown.
Finish(r, batch, out, at, backend) ==
  /\ runs' = [runs EXCEPT ![r].batch = batch,
                          ![r].backend = backend,
                          ![r].sent  = out.sent,
                          ![r].i     = at,
                          ![r].pc    = IF out.thrown THEN "aborted" ELSE "done"]
  /\ queryResult' = out.ui.queryResult
  /\ commandHistory' = out.ui.commandHistory
  /\ error' = out.ui.error
  /\ altairJson' = out.ui.altairJson

\* The catch block of ShellExecutorComponent.onToolCall.
shellCatch(ui, sent, id, message, ok) ==
  Outcome([ui EXCEPT !.error = message],
          sendToolResponse(sent,
            << FunctionResponse(id, [error |-> message]) >>, ok),
          ~ok)

\* onToolCall up to `await executeCommand(...)`.
ShellOnToolCall(r, batch, ok1) ==
  LET at == find(batch, "execute_shell_command") IN
  /\ runs[r].pc = "free"
  /\ IF at = 0
     THEN /\ runs' = [runs EXCEPT ![r] =
                 [FreeRun EXCEPT !.pc = "done", !.batch = batch]]
          /\ UNCHANGED << queryResult, commandHistory, error, altairJson,
                          executing >>
     ELSE IF ~Has(batch[at], "args")
     THEN /\ Finish(r, batch,
                    shellCatch(UI, << >>, batch[at].id, msgNoArgs, ok1), at,
                    << >>)
          /\ executing' = FALSE
     ELSE /\ runs' = [runs EXCEPT ![r] =
                 [FreeRun EXCEPT !.pc = "awaitExecute", !.batch = batch,
                    !.i = at,
                    !.backend = << ExecuteRequest(at,
                        commandLine(Arg(batch[at].args, "shell"),
                                    Arg(batch[at].args, "command"))) >>]]
          /\ executing' = TRUE
          /\ UNCHANGED << queryResult, commandHistory, error, altairJson >>
  /\ UNCHANGED << serverVars, app >>

\* { success, command: args.command, output, error }
shellExecutorOutput(result, command) ==
  LET base == shellToolResponse(result) IN
  IF command = Undefined THEN base ELSE With(base, "command", command)

\* `await executeCommand(...)` settles; the handler runs to its end.
ShellExecReturns(r, net, proc, ok1, ok2) ==
  LET run    == runs[r]
      fc     == run.batch[run.i]
      result == execute(proc)
      entry  == [command |-> commandLabel(Arg(fc.args, "shell"),
                                          Arg(fc.args, "command")),
                 output  |-> outputOrError(result)]
      ui1    == [UI EXCEPT !.commandHistory = Append(@, entry)]
      frs    == << FunctionResponse(fc.id,
                     [output |-> shellExecutorOutput(result,
                                    Arg(fc.args, "command"))]) >>
  IN
  /\ run.pc = "awaitExecute"
  /\ IF ~net
     THEN Finish(r, run.batch,
                 shellCatch(UI, run.sent, fc.id, msgFetchFault, ok1), run.i,
                 Answered(run.backend, net, result))
     ELSE IF ok1
     THEN Finish(r, run.batch,
                 Outcome(ui1, sendToolResponse(run.sent, frs, TRUE), FALSE),
                 run.i, Answered(run.backend, net, result))
     ELSE Finish(r, run.batch,
                 shellCatch(ui1, sendToolResponse(run.sent, frs, FALSE),
                            fc.id, msgSendFault, ok2), run.i,
                 Answered(run.backend, net, result))
  /\ executing' = FALSE
  /\ UNCHANGED << serverVars, app >>

(***************************************************************************)
(* Client: DatabaseComponent                                               *)
(***************************************************************************)
\* The catch block of DatabaseComponent.handleToolCall.
dbCatch(ui, sent, id, message, ok) ==
  Outcome([ui EXCEPT !.queryResult = [rows |-> << >>, error |-> message]],
          sendToolResponse(sent,
            << FunctionResponse(id, [output |-> Failure(message)]) >>, ok),
          ~ok)

\* handleToolCall up to `await DatabaseService.executeQuery(...)`.
\* functionCall is functionCalls[0]; fc only decides whether to handle.
DbOnToolCall(r, batch, ok1) ==
  LET at == find(batch, "query_database") IN
  /\ runs[r].pc = "free"
  /\ IF at = 0
     THEN /\ runs' = [runs EXCEPT ![r] =
                 [FreeRun EXCEPT !.pc = "done", !.batch = batch]]
          /\ UNCHANGED << queryResult, commandHistory, error, altairJson >>
     ELSE IF batch[1].name # "query_database"
     THEN Finish(r, batch, dbCatch(UI, << >>, batch[1].id,
                                   UnknownFunction(batch[1].name), ok1), 1,
                 << >>)
     ELSE IF ~Has(batch[1], "args")
     THEN Finish(r, batch, dbCatch(UI, << >>, batch[1].id, msgNoArgs, ok1), 1,
                 << >>)
     ELSE /\ runs' = [runs EXCEPT ![r] =
                 [FreeRun EXCEPT !.pc = "awaitDbQuery", !.batch = batch,
                    !.i = 1,
                    !.backend =
                       << QueryRequest(1, queryBody(batch[1].args)) >>]]
          /\ UNCHANGED << queryResult, commandHistory, error, altairJson >>
  /\ UNCHANGED << serverVars, app, executing >>

\* `await DatabaseService.executeQuery(...)` settles; the handler ends.
DbQueryReturns(r, net, store, ok1, ok2) ==
  LET run  == runs[r]
      functionCall == run.batch[1]
      reply == postQuery(run.backend[1].body, store)
      res  == IF net THEN executeQuery(reply)
              ELSE [thrown |-> TRUE, message |-> msgFetchFault]
      log  == Answered(run.backend, net, reply)
  IN
  /\ run.pc = "awaitDbQuery"
  /\ IF res.thrown
     THEN Finish(r, run.batch,
                 dbCatch(UI, run.sent, functionCall.id, res.message, ok1), 1,
                 log)
     ELSE LET ui1 == [UI EXCEPT !.queryResult = [rows |-> res.value.rows]]
              frs == << FunctionResponse(functionCall.id,
                                         [output |-> res.value]) >>
          IN IF ok1
             THEN Finish(r, run.batch, Outcome(ui1,
                       sendToolResponse(run.sent, frs, TRUE), FALSE), 1, log)
             ELSE Finish(r, run.batch, dbCatch(ui1,
                       sendToolResponse(run.sent, frs, FALSE),
                       functionCall.id, msgSendFault, ok2), 1, log)
  /\ UNCHANGED << serverVars, app, executing >>

(***************************************************************************)
(* Specifications of the single-tool components                            *)
(***************************************************************************)
tQueryDrop == Template("query_database",
                       [query |-> qDropUpper, operation |-> opSelectLower])

tShellLs == Template("execute_shell_command",
                     [shell |-> "gitbash", command |-> "ls"])

ShellBatches ==
  { MakeBatch(ts) :
      ts \in SeqsUpTo({ tShell, tShellLs, tAltair, tBogus }, MaxCalls) }

ShellNext ==
  \/ \E batch \in ShellBatches, ok1 \in BOOLEAN :
        ShellOnToolCall("r1", batch, ok1)
  \/ \E net, ok1, ok2 \in BOOLEAN, proc \in ProcOutcomes :
        ShellExecReturns("r1", net, proc, ok1, ok2)

SpecShell == Init /\ [][ShellNext]_vars

DbBatches ==
  { MakeBatch(ts) :
      ts \in SeqsUpTo({ tQuery, tQueryDrop, tShell, tBogus }, MaxCalls) }

DbNext ==
  \/ \E batch \in DbBatches, ok1 \in BOOLEAN : DbOnToolCall("r1", batch, ok1)
  \/ \E net, ok1, ok2 \in BOOLEAN, store \in StoreOutcomes :
        DbQueryReturns("r1", net, store, ok1, ok2)

SpecDb == Init /\ [][DbNext]_vars

(***************************************************************************)
(* Specification of the App dispatcher on calls that lack arguments        *)
(***************************************************************************)
\* `required` of the function declarations.
Required(name) ==
  IF name = "query_database" THEN << "query", "operation" >>
  ELSE IF name = "execute_shell_command" THEN << "shell", "command" >>
  ELSE IF name = "render_altair" THEN << "json_graph" >>
  ELSE << >>

tShellNoCommand   == Template("execute_shell_command", [shell |-> "cmd"])
tShellNoShell     == Template("execute_shell_command", [command |-> "dir"])
tQueryNoOperation == Template("query_database", [query |-> qSelect])
tQueryNoQuery     == Template("query_database", [operation |-> opSelectLower])
tQueryNoFields    == Template("query_database", EmptyObj)
tAltairNoGraph    == Template("render_altair", EmptyObj)
tAltairNoArgs     == [name |-> "render_altair"]

ArgTemplates ==
  { tShellNoCommand, tShellNoShell, tQueryNoOperation, tQueryNoQuery,
    tQueryNoFields, tAltairNoGraph, tAltairNoArgs, tQuery }

ArgBatches == { MakeBatch(ts) : ts \in SeqsUpTo(ArgTemplates, MaxCalls) }

ArgsNext ==
  \/ \E batch \in ArgBatches : onToolCall("r1", batch)
  \/ \E ok1, ok2 \in BOOLEAN : handleToolCall("r1", ok1, ok2)
  \/ \E net, ok1, ok2 \in BOOLEAN, store \in StoreOutcomes :
        QueryReturns("r1", net, store, ok1, ok2)
  \/ \E net, ok1, ok2 \in BOOLEAN, proc \in ProcOutcomes :
        ShellReturns("r1", net, proc, ok1, ok2)

SpecArgs == Init /\ [][ArgsNext]_vars

(***************************************************************************)
(* Specifications of the server                                            *)
(***************************************************************************)
\* Requests that overlap in the pool.
PoolBodies ==
  { [query |-> qSelect, operation |-> opSelectLower],
    [query |-> qDeleteWhere, operation |-> opDELETE],
    [query |-> qDropUpper, operation |-> opSelectLower],
    [query |-> qUsers, operation |-> opDescribeLower],
    [query |-> qSelect, operation |-> opDescribeLower],
    [query |-> qUsers, operation |-> opLIST],
    [operation |-> opLIST] }

ServerNext ==
  \/ \E r \in ReqIds, body \in PoolBodies : Receive(r, body)
  \/ \E r \in ReqIds, ok \in BOOLEAN : Connect(r, ok)
  \/ \E r \in ReqIds, ok \in BOOLEAN, result \in StoreResults :
        QueryDone(r, ok, result)
  \/ \E r \in ReqIds : Respond(r)

SpecServer == Init /\ [][ServerNext]_vars

\* One request at a time, over all request bodies.
RouteNext ==
  \/ \E body \in RequestBodies : Receive(1, body)
  \/ \E ok \in BOOLEAN : Connect(1, ok)
  \/ \E ok \in BOOLEAN, result \in StoreResults : QueryDone(1, ok, result)
  \/ Respond(1)

SpecRoute == Init /\ [][RouteNext]_vars

(***************************************************************************)
(* Specifications of the pool at its limit                                 *)
(***************************************************************************)
\* Executions whose query is running when the behaviour starts and goes on
\* running: they hold all clients of the pool but one.
LongRunning == 1..(PoolMax - 1)

\* The slots of the requests that arrive.
Arrivals == PoolMax..(PoolMax + MaxInFlight - 1)

QueryingReq ==
  [IdleReq EXCEPT !.pc = "querying",
                  !.body = [query |-> qSelect, operation |-> opSelectLower],
                  !.plan = Plan(qSelect, << >>, TRUE),
                  !.acquired = 1]

PoolInit ==
  /\ reqs = [r \in LongRunning \cup Arrivals |->
               IF r \in LongRunning THEN QueryingReq ELSE IdleReq]
  /\ checkedOut = PoolMax - 1
  /\ children = [e \in ReqIds |-> IdleChild]
  /\ ClientInit

PoolNext ==
  \/ \E r \in Arrivals, body \in PoolBodies : Receive(r, body)
  \/ \E r \in Arrivals, ok \in BOOLEAN : Connect(r, ok)
  \/ \E r \in Arrivals, ok \in BOOLEAN, result \in StoreResults :
        QueryDone(r, ok, result)
  \/ \E r \in Arrivals : Respond(r)

SpecPool == PoolInit /\ [][PoolNext]_vars

\* Fair scheduling: a client that stays available is handed out, the
\* timer of connectionTimeoutMillis fires (pool.connect() rejects), a
\* running query settles, a reply is written.
PoolFairness ==
  \A r \in Arrivals :
    /\ WF_vars(Connect(r, TRUE))
    /\ WF_vars(Connect(r, FALSE))
    /\ WF_vars(\E ok \in BOOLEAN, result \in StoreResults :
                 QueryDone(r, ok, result))
    /\ WF_vars(Respond(r))

SpecPoolFair == SpecPool /\ PoolFairness

(***************************************************************************)
(* Specification of the command executor                                   *)
(***************************************************************************)
ExecNext ==
  \/ \E e \in ReqIds, timeout \in Timeouts, background, pipes \in BOOLEAN :
        PostExecute(e, timeout, background, pipes)
  \/ \E e \in ReqIds, code \in { 0, 1 } : CommandExits(e, code)
  \/ \E e \in ReqIds : ShellExits(e)
  \/ \E e \in ReqIds : TimerFires(e)
  \/ \E e \in ReqIds : Close(e)

SpecExec == Init /\ [][ExecNext]_vars

(***************************************************************************)
(* Claims                                                                  *)
(***************************************************************************)
Finished(run) == run.pc \in { "done", "aborted" }

NoSendFault(run) == \A k \in DOMAIN run.sent : run.sent[k].ok

\* The responses that reached the channel: (invocation, position) pairs.
Delivered(run) ==
  UNION { { << k, j >> : j \in DOMAIN run.sent[k].functionResponses } :
          k \in { k \in DOMAIN run.sent : run.sent[k].ok } }

ResponseAt(run, p) == run.sent[p[1]].functionResponses[p[2]]

DeliveredTo(run, id) == { p \in Delivered(run) : ResponseAt(run, p).id = id }

BatchIds(run) == { run.batch[i].id : i \in DOMAIN run.batch }

\* The backend requests made for call i of the batch.
RequestsOf(run, i) == { k \in DOMAIN run.backend : run.backend[k].call = i }

\* Handling call i faulted: unknown name, fetch rejected, or an error reply.
Faulted(run, i) ==
  \/ run.batch[i].name \notin KnownNames
  \/ \E k \in RequestsOf(run, i) :
        /\ Has(run.backend[k], "answer")
        /\ \/ ~run.backend[k].answer.net
           \/ /\ run.backend[k].kind = "query"
              /\ run.backend[k].answer.json.status # 200

\* C1: for a batch of N calls exactly N responses are sent, every response
\* id is the id of a call of the batch and every call id is in exactly one
\* response (stated for batches whose sends all returned).
C1_OneResponsePerCall ==
  \A r \in RunIds :
    LET run == runs[r] IN
    (Finished(run) /\ NoSendFault(run))
    => /\ Cardinality(Delivered(run)) = Len(run.batch)
       /\ \A p \in Delivered(run) : ResponseAt(run, p).id \in BatchIds(run)
       /\ \A id \in BatchIds(run) : Cardinality(DeliveredTo(run, id)) = 1

\* C2: when handling one call of a batch faults, every other call of the
\* batch is still processed and receives its own response.
C2_FaultIsolated ==
  \A r \in RunIds :
    LET run == runs[r] IN
    Finished(run)
    => \A i \in DOMAIN run.batch :
         Faulted(run, i)
         => \A j \in DOMAIN run.batch \ {i} :
              Cardinality(DeliveredTo(run, run.batch[j].id)) = 1

\* C3: no fault raised while handling a call, a fault of the send included,
\* leaves the processing of the batch.
C3_NoFaultEscapes ==
  \A r \in RunIds : runs[r].pc # "aborted"

\* C4: a call whose name is not one of the three capabilities receives a
\* response whose outcome is Failure("Unknown function: <name>"), and no
\* backend is invoked for it (stated for batches whose sends all returned).
C4_UnknownNameFails ==
  \A r \in RunIds :
    LET run == runs[r] IN
    (Finished(run) /\ NoSendFault(run))
    => \A i \in DOMAIN run.batch :
         run.batch[i].name \notin KnownNames
         => /\ RequestsOf(run, i) = {}
            /\ Cardinality(DeliveredTo(run, run.batch[i].id)) = 1
            /\ \A p \in DeliveredTo(run, run.batch[i].id) :
                  ResponseAt(run, p).response =
                    [output |-> Failure(UnknownFunction(run.batch[i].name))]

ContainsForbidden(text) ==
  \E keyword \in forbiddenKeywords : includes(toLowerCase(text), keyword)

\* The request hands its own query text to safeExecute.
SubmitsQueryText(body) ==
  /\ ~Falsy(body, "operation")
  /\ ~Falsy(body, "query")
  /\ toUpperCase(body.operation) \in { opSELECT, opINSERT, opUPDATE, opDELETE }

\* C5: a query sent with the operation value `delete` whose lowercased text
\* has no `where` is rejected before any pool connection is acquired, and
\* the same request with a `where` clause is not rejected by validation.
C5_DeleteWithoutWhereRejected ==
  \A r \in ReqIds :
    LET req == reqs[r] IN
    (/\ req.pc # "idle"
     /\ ~Falsy(req.body, "query")
     /\ ~Falsy(req.body, "operation")
     /\ req.body.operation = opDeleteLower
     /\ ~ContainsForbidden(req.body.query))
    => IF includes(toLowerCase(req.body.query), kwWhere)
       THEN req.reply # CatchReply(msgDeleteWhere)
       ELSE /\ req.pc = "replied"
            /\ req.acquired = 0
            /\ req.reply.status # 200

\* C6: a query text containing "drop" or "truncate" in any letter case, also
\* inside an identifier, is rejected as unsafe with no pool connection
\* acquired for it, and no statement containing either keyword ever waits
\* for or holds a pool connection.
C6_ForbiddenKeywordsRejected ==
  \A r \in ReqIds :
    LET req == reqs[r] IN
    /\ (req.pc # "idle" /\ SubmitsQueryText(req.body)
          /\ ContainsForbidden(req.body.query))
       => /\ req.pc = "replied"
          /\ req.acquired = 0
          /\ req.reply = CatchReply(msgUnsafe)
    /\ (req.pc \in { "connecting", "querying" } \/ req.acquired > 0)
       => ~ContainsForbidden(req.plan.sql)

C6_Witness ==
  \E r \in ReqIds :
    /\ reqs[r].body = [query |-> qDropout, operation |-> opSelectLower]
    /\ reqs[r].pc = "replied"
    /\ reqs[r].acquired = 0
    /\ reqs[r].reply = CatchReply(msgUnsafe)

\* C7: a connection acquired for an execution is released exactly once
\* before the execution returns, on success and on fault, and with no
\* execution in flight no connection is checked out.
C7_ConnectionReleasedOnce ==
  /\ \A r \in ReqIds :
       LET req == reqs[r] IN
       /\ req.released <= req.acquired
       /\ req.acquired <= 1
       /\ req.pc = "replied" => req.released = req.acquired
       /\ req.pc = "querying" <=> (req.acquired = 1 /\ req.released = 0)
  /\ checkedOut = Cardinality({ r \in ReqIds : reqs[r].pc = "querying" })
  /\ (\A r \in ReqIds : reqs[r].pc \in { "idle", "replied" }) => checkedOut = 0

C7_Witness ==
  \E r \in ReqIds :
    /\ reqs[r].pc = "replied"
    /\ reqs[r].acquired = 1
    /\ reqs[r].released = 1
    /\ reqs[r].reply.status = 500
    /\ checkedOut = 0

\* The child of call i ran and exited with a non-zero status.
NonZeroExit(run, i) ==
  \E k \in RequestsOf(run, i) :
    /\ run.backend[k].kind = "execute"
    /\ Has(run.backend[k], "answer")
    /\ run.backend[k].answer.net
    /\ Has(run.backend[k].answer.json, "exitCode")
    /\ run.backend[k].answer.json.exitCode # Null

\* C8: a shell command that ran and exited non-zero is reported in a
\* Success outcome whose data records the failure, so that its response
\* differs from the Failure of a failed dispatch (stated for batches whose
\* sends all returned).
C8_NonZeroExitIsSuccess ==
  \A r \in RunIds :
    LET run == runs[r] IN
    NoSendFault(run)
    => \A i \in DOMAIN run.batch :
         NonZeroExit(run, i)
         => \A p \in DeliveredTo(run, run.batch[i].id) :
              LET outcome == ResponseAt(run, p).response.output IN
              /\ outcome.success = TRUE
              /\ Has(outcome, "output")

CallIndex(run, id) == CHOOSE i \in DOMAIN run.batch : run.batch[i].id = id

InvocationsFor(run, id) ==
  { k \in DOMAIN run.sent : run.sent[k].functionResponses[1].id = id }

FirstMissing(call) ==
  LET required == Required(call.name)
      missing  == { n \in DOMAIN required :
                      ~Has(call, "args") \/ ~Has(call.args, required[n]) }
  IN IF missing = {} THEN ""
     ELSE required[CHOOSE n \in missing : \A m \in missing : n <= m]

\* The argument a message of the code names, "" when it names none.
FieldNamedBy(message) ==
  IF message = msgOpRequired THEN "operation"
  ELSE IF message = msgQueryRequired THEN "query"
  ELSE ""

\* C10: a call to a known capability that lacks a required argument yields
\* a Failure whose message names the first missing field, and no backend is
\* invoked for it.
C10_MissingArgumentRejected ==
  \A r \in RunIds :
    LET run == runs[r] IN
    \A i \in DOMAIN run.batch :
      (run.batch[i].name \in KnownNames /\ FirstMissing(run.batch[i]) # "")
      => /\ RequestsOf(run, i) = {}
         /\ NoSendFault(run)
            => \A p \in DeliveredTo(run, run.batch[i].id) :
                 LET outcome == ResponseAt(run, p).response.output IN
                 /\ outcome.success = FALSE
                 /\ Has(outcome, "error")
                 /\ FieldNamedBy(outcome.error) = FirstMissing(run.batch[i])

\* C11: once the outcome of a command execution has been reported, exactly
\* one outcome was produced and no process of that execution is still
\* running (the child exited or was terminated by the timeout).
C11_NoChildLeftRunning ==
  \A e \in ReqIds :
    children[e].pc = "reported"
    => /\ children[e].resolved = 1
       /\ children[e].shell # "alive"
       /\ children[e].command # "running"

\* The child of call i was ended by the timeout.
TimedOut(run, i) ==
  \E k \in RequestsOf(run, i) :
    /\ run.backend[k].kind = "execute"
    /\ Has(run.backend[k], "answer")
    /\ run.backend[k].answer.net
    /\ Has(run.backend[k].answer.json, "exitCode")
    /\ run.backend[k].answer.json.exitCode = Null

\* C12: the response delivered for a command that exceeded its timeout is
\* a Failure carrying a timeout indication, and differs from the response
\* of every command that exited by itself (stated for batches whose sends
\* all returned).
C12_TimeoutIsFailure ==
  \A r \in RunIds :
    LET run == runs[r] IN
    NoSendFault(run)
    => \A i \in DOMAIN run.batch :
         TimedOut(run, i)
         => \A p \in DeliveredTo(run, run.batch[i].id) :
              LET outcome == ResponseAt(run, p).response.output IN
              /\ outcome.success = FALSE
              /\ Has(outcome, "error")
              /\ outcome.error # ""
              /\ \A proc \in ProcOutcomes :
                   proc.signal = ""
                   => outcome # shellToolResponse(execute(proc))

\* The messages of the faults of pool.connect() and client.query().
FaultMessages == { msgConnectFault, msgStoreFault }

\* The message of the fault that ended the query of call i, "" when the
\* query did not fault while connecting or executing.
StoreFaultOf(run, i) ==
  LET faults == { m \in FaultMessages :
                    \E k \in RequestsOf(run, i) :
                      /\ run.backend[k].kind = "query"
                      /\ Has(run.backend[k], "answer")
                      /\ run.backend[k].answer.net
                      /\ run.backend[k].answer.json.status = 500
                      /\ run.backend[k].answer.json.body.details
                           = msgExecFailed \o ": " \o m }
  IN IF faults = {} THEN "" ELSE CHOOSE m \in faults : TRUE

FirstInvocationFor(run, id) ==
  CHOOSE k \in InvocationsFor(run, id) :
    \A j \in InvocationsFor(run, id) : k <= j

\* C13: when pool.connect() or client.query() faults, the response sent for
\* the query call is a Failure carrying the fault's message, processing
\* goes on, and the calls after it in the batch are still answered.
C13_StoreFaultIsFailure ==
  \A r \in RunIds :
    LET run == runs[r] IN
    \A i \in DOMAIN run.batch :
      StoreFaultOf(run, i) # ""
      => LET id == run.batch[i].id
             message == msgExecFailed \o ": " \o StoreFaultOf(run, i)
         IN /\ InvocationsFor(run, id) # {}
            /\ run.sent[FirstInvocationFor(run, id)].functionResponses[1]
                  .response.output = Failure(message)
            /\ NoSendFault(run) => run.pc # "aborted"
            /\ (run.pc = "done" /\ NoSendFault(run))
               => \A j \in DOMAIN run.batch :
                    Cardinality(DeliveredTo(run, run.batch[j].id)) = 1

C13_Witness ==
  \E r \in RunIds :
    LET run == runs[r] IN
    /\ run.pc = "done"
    /\ NoSendFault(run)
    /\ Len(run.batch) >= 2
    /\ StoreFaultOf(run, 1) = msgConnectFault
    /\ \E p \in DeliveredTo(run, run.batch[2].id) :
         ResponseAt(run, p).response.output.success = TRUE

\* C14: the number of clients checked out of the pool never exceeds the
\* configured maximum, and equals the number of executions holding one.
C14_PoolBounded ==
  /\ checkedOut <= PoolMax
  /\ checkedOut = Cardinality({ r \in DOMAIN reqs : reqs[r].pc = "querying" })

C14_Witness ==
  /\ checkedOut = PoolMax
  /\ \E r \in Arrivals : reqs[r].pc = "connecting"

\* C15 as stated: every execution waiting for a pool client eventually
\* acquires one.
C15_WaiterAcquires ==
  \A r \in Arrivals :
    (reqs[r].pc = "connecting") ~> (reqs[r].pc = "querying")

\* C15 amended: every execution waiting for a pool client eventually
\* acquires one or is rejected with the connection-timeout fault; none
\* waits forever.
C15_WaiterServedOrRejected ==
  \A r \in Arrivals :
    (reqs[r].pc = "connecting")
    ~> (reqs[r].pc = "querying" \/ reqs[r].pc = "replied")

C15_Witness ==
  \E r \in Arrivals :
    /\ checkedOut = PoolMax
    /\ reqs[r].pc = "replied"
    /\ reqs[r].acquired = 0
    /\ reqs[r].reply = faultReply(reqs[r].plan, msgConnectFault)

\* The request carries a query field that is empty or only white space
\* and one of the four statement operations.
BlankStatement(body) ==
  /\ Has(body, "query")
  /\ trim(body.query) = << >>
  /\ ~Falsy(body, "operation")
  /\ toUpperCase(body.operation) \in { opSELECT, opINSERT, opUPDATE, opDELETE }

\* C16: an empty or whitespace-only query submitted for select, insert,
\* update or delete is rejected before execution: it never waits for or
\* holds a pool connection, and the caller receives an error reply.
C16_BlankQueryRejected ==
  \A r \in ReqIds :
    LET req == reqs[r] IN
    (req.pc # "idle" /\ BlankStatement(req.body))
    => /\ req.pc = "replied"
       /\ req.acquired = 0
       /\ req.reply.status \in { 400, 500 }
       /\ Has(req.reply.body, "error")

C16_Witness ==
  \E r \in ReqIds :
    /\ reqs[r].body = [query |-> qBlank, operation |-> opSelectLower]
    /\ reqs[r].pc = "replied"
    /\ reqs[r].acquired = 0
    /\ reqs[r].reply = CatchReply(msgEmptyQuery)

\* The envelope: the call id and, under `output`, one outcome tagged by
\* `success`, with a message when it is a failure.
Envelope(functionResponse) ==
  /\ Has(functionResponse, "id")
  /\ Has(functionResponse, "response")
  /\ DOMAIN functionResponse.response = { "output" }
  /\ Has(functionResponse.response.output, "success")
  /\ functionResponse.response.output.success = FALSE
     => Has(functionResponse.response.output, "error")

\* C17: every response handed to sendToolResponse, on the success and on
\* the failure path, has the envelope shape.
C17_UniformEnvelope ==
  \A r \in RunIds :
    \A k \in DOMAIN runs[r].sent :
      \A n \in DOMAIN runs[r].sent[k].functionResponses :
        Envelope(runs[r].sent[k].functionResponses[n])

\* The command of call i was dispatched and its execution was answered.
Executed(run, i) ==
  \E k \in RequestsOf(run, i) :
    /\ run.backend[k].kind = "execute"
    /\ Has(run.backend[k], "answer")
    /\ run.backend[k].answer.net

\* The child of call i exited with status 0.
ExitedZero(run, i) ==
  \E k \in RequestsOf(run, i) :
    /\ run.backend[k].kind = "execute"
    /\ Has(run.backend[k], "answer")
    /\ run.backend[k].answer.net
    /\ run.backend[k].answer.json.success

\* C18: the outcome delivered for a dispatched shell command holds the
\* success flag, the exit code, stdout and stderr; for a command that
\* exited with status 0 it has success true and exit code 0 (stated for
\* batches whose sends all returned).
C18_ShellOutcomeData ==
  \A r \in RunIds :
    LET run == runs[r] IN
    NoSendFault(run)
    => \A i \in DOMAIN run.batch :
         Executed(run, i)
         => \A p \in DeliveredTo(run, run.batch[i].id) :
              LET outcome == ResponseAt(run, p).response.output IN
              /\ { "success", "exitCode", "output", "error" }
                   \subseteq DOMAIN outcome
              /\ ExitedZero(run, i)
                 => (outcome.success = TRUE /\ outcome.exitCode = JsonNumber(0))

\* The render_altair calls with a json_graph that have been handled.
RenderedCalls(run) ==
  { j \in DOMAIN run.batch :
      /\ run.batch[j].name = "render_altair"
      /\ Has(run.batch[j], "args")
      /\ Has(run.batch[j].args, "json_graph")
      /\ InvocationsFor(run, run.batch[j].id) # {} }

\* C19: the response first sent for a render_altair call is a Success
\* whatever its json_graph holds, and once the call is handled the stored
\* graph payload is the json_graph of the latest such call.
C19_AltairAlwaysSucceeds ==
  \A r \in RunIds :
    LET run == runs[r]
        rendered == RenderedCalls(run)
    IN /\ \A j \in rendered :
            run.sent[FirstInvocationFor(run, run.batch[j].id)]
               .functionResponses[1].response.output = [success |-> TRUE]
       /\ rendered # {}
          => altairJson =
               run.batch[CHOOSE j \in rendered : \A m \in rendered : m <= j]
                  .args.json_graph

C19_Witness ==
  \E r \in RunIds :
    /\ runs[r].pc = "done"
    /\ \E j \in RenderedCalls(runs[r]) :
         runs[r].batch[j].args.json_graph = "not json"
    /\ altairJson = "not json"

\* The backend each name is bound to.
Route(name) ==
  IF name = "query_database" THEN "query"
  ELSE IF name = "execute_shell_command" THEN "execute"
  ELSE "none"

\* C20: in every reachable state the names resolved to a handler are
\* exactly query_database, execute_shell_command and render_altair, and a
\* name routes to the same backend wherever the call stands in the batch
\* and whatever was handled before it.
C20_FixedRouting ==
  \A r \in RunIds :
    LET run == runs[r] IN
    \A i \in DOMAIN run.batch :
      LET call == run.batch[i]
          handled == InvocationsFor(run, call.id) # {}
      IN /\ Cardinality(RequestsOf(run, i)) <= 1
         /\ \A k \in RequestsOf(run, i) :
              run.backend[k].kind = Route(call.name)
         /\ (handled /\ Route(call.name) # "none" /\ Has(call, "args"))
            => RequestsOf(run, i) # {}
         /\ handled
            => (call.name \notin KnownNames
                <=> run.sent[FirstInvocationFor(run, call.id)]
                      .functionResponses[1].response.output
                    = Failure(UnknownFunction(call.name)))

C20_Witness ==
  \E r \in RunIds :
    LET run == runs[r] IN
    /\ run.pc = "done"
    /\ Len(run.batch) >= 2
    /\ run.batch[1].name = "bogus"
    /\ run.batch[2].name = "execute_shell_command"
    /\ \E k \in RequestsOf(run, 2) : run.backend[k].kind = "execute"

(***************************************************************************)
(* C21  For the list-tables and describe-table operations the SQL text     *)
(* sent to the store is a fixed catalog query that does not depend on the  *)
(* query field of the request: two requests that differ only in that       *)
(* field and reach the store carry the same SQL text, and the field        *)
(* reaches the store at most as the bound parameter of the describe query. *)
(***************************************************************************)
AtStore(r) == reqs[r].pc \in { "connecting", "querying" }

Catalog(r) ==
  /\ AtStore(r)
  /\ toUpperCase(reqs[r].body.operation) \in { opLIST, opDESCRIBE }

QueryField(body) == IF Has(body, "query") THEN body.query ELSE << >>

C21_CatalogSqlFixed ==
  /\ \A r1 \in ReqIds, r2 \in ReqIds :
        Catalog(r1) /\ Catalog(r2)
        /\ reqs[r1].body.operation = reqs[r2].body.operation
        => reqs[r1].plan.sql = reqs[r2].plan.sql
  /\ \A r \in ReqIds :
        Catalog(r) =>
          /\ reqs[r].plan.sql \in { sqlGetTables, sqlDescribe }
          /\ reqs[r].plan.params \in { << >>, << QueryField(reqs[r].body) >> }
          /\ reqs[r].plan.params # << >>
             => toUpperCase(reqs[r].body.operation) = opDESCRIBE

C21_Witness ==
  /\ reqs[1].pc = "querying" /\ reqs[2].pc = "querying"
  /\ reqs[1].body = [query |-> qUsers, operation |-> opDescribeLower]
  /\ reqs[2].body = [query |-> qSelect, operation |-> opDescribeLower]
  /\ reqs[1].plan.sql = sqlDescribe /\ reqs[2].plan.sql = sqlDescribe
  /\ reqs[1].plan.params = << qUsers >>

(***************************************************************************)
(* C22  Every POST /query request receives one HTTP reply: status 200 with *)
(* a body holding rows and rowCount when execution succeeded, and          *)
(* otherwise a 4xx or 5xx status whose body holds both error and details.  *)
(***************************************************************************)
SuccessShape(reply) ==
  /\ reply.status = 200
  /\ DOMAIN reply.body = { "rows", "rowCount" }

FailureShape(reply) ==
  /\ reply.status \in 400..599
  /\ { "error", "details" } \subseteq DOMAIN reply.body

C22_ReplyShape ==
  \A r \in ReqIds :
    reqs[r].pc = "replied" =>
      IF reqs[r].reply.status = 200
      THEN SuccessShape(reqs[r].reply)
      ELSE FailureShape(reqs[r].reply)

(***************************************************************************)
(* C23  If the session credential is absent at process start, startup      *)
(* fails fatally: the application is never rendered, no toolcall handler   *)
(* is ever registered with a channel client and no tool call is ever       *)
(* dispatched.                                                             *)
(***************************************************************************)
CredentialAbsent == app.credential \in { Undefined, "" }

C23_NoCredentialNoStart ==
  CredentialAbsent =>
    /\ app.phase \in { "start", "failed" }
    /\ \A c \in Clients : app.listeners[c] = 0
    /\ app.emitted = 0
    /\ \A r \in RunIds : runs[r] = FreeRun

C23_Witness == CredentialAbsent /\ app.phase = "failed"

(***************************************************************************)
(* C24  In the handler of the database-only component, whenever a          *)
(* delivered batch contains a query_database call, exactly one response is *)
(* sent and it carries the id of that call and the outcome of executing    *)
(* that call, whatever position the call has in the batch (stated for      *)
(* batches whose sends all returned).                                      *)
(***************************************************************************)
C24_DbAnswersItsCall ==
  \A r \in RunIds :
    LET run == runs[r]
        at  == find(run.batch, "query_database")
    IN
    (Finished(run) /\ NoSendFault(run) /\ at # 0)
    => /\ Cardinality(Delivered(run)) = 1
       /\ \A p \in Delivered(run) : ResponseAt(run, p).id = run.batch[at].id
       /\ Len(run.backend) = 1
       /\ run.backend[1].body = queryBody(run.batch[at].args)

(***************************************************************************)
(* C25  Within one batch, calls are handled strictly one at a time in      *)
(* batch order: the handler of call i+1 does not start before the response *)
(* of call i has been sent, so the responses of a batch are sent in the    *)
(* order of its calls, also when a second batch is delivered while the     *)
(* first is still suspended on a backend.                                  *)
(***************************************************************************)
\* Call i of the run: its handler has started / its response has been sent.
Started(run, i) == run.pc # "free" /\ i <= run.i /\ i <= Len(run.batch)

HasResponse(run, i) == DeliveredTo(run, run.batch[i].id) # {}

C25_OneAtATimeInOrder ==
  \A r \in RunIds :
    LET run == runs[r] IN
    /\ \A i \in DOMAIN run.batch :
         (Started(run, i) /\ i > 1) => HasResponse(run, i - 1)
    /\ \A k \in DOMAIN run.backend : Started(run, run.backend[k].call)
    /\ \A k \in DOMAIN run.sent :
         Started(run, CallIndex(run, run.sent[k].functionResponses[1].id))
    /\ \A p \in Delivered(run), q \in Delivered(run) :
         p[1] < q[1]
         => CallIndex(run, ResponseAt(run, p).id)
              < CallIndex(run, ResponseAt(run, q).id)

C25_Witness ==
  /\ runs["r1"].pc = "awaitQuery" /\ runs["r1"].i = 2
  /\ HasResponse(runs["r1"], 1)
  /\ runs["r2"].pc = "done" /\ Len(runs["r2"].batch) = 2
  /\ HasResponse(runs["r2"], 1) /\ HasResponse(runs["r2"], 2)

(***************************************************************************)
(* C26  Across any sequence of mount, channel-client change and unmount of *)
(* the consumer, at most one of its toolcall handlers is subscribed to a   *)
(* given channel client at any time and none remains subscribed after      *)
(* unmount, so each delivered call is handed to a backend at most once.    *)
(***************************************************************************)
\* The invocations of onToolCall that handed the call `id` to a backend.
Consumers(id) ==
  { r \in RunIds :
      \E k \in DOMAIN runs[r].backend :
         runs[r].batch[runs[r].backend[k].call].id = id }

C26_SingleSubscription ==
  /\ \A c \in Clients : app.listeners[c] <= 1
  /\ \A c \in Clients :
        app.listeners[c] = 1 => app.phase = "mounted" /\ c = app.client
  /\ app.phase = "unmounted" => \A c \in Clients : app.listeners[c] = 0
  /\ \A n \in 1..MaxEmits : Cardinality(Consumers(CallId(n))) <= 1

C26_Witness ==
  /\ app.phase = "unmounted"
  /\ app.client = "c2"
  /\ app.emitted = 2
  /\ Cardinality(Consumers(CallId(1))) = 1
  /\ Cardinality(Consumers(CallId(2))) = 1

(***************************************************************************)
(* C27  The command history is append-only: no operation removes, reorders *)
(* or rewrites an existing entry, and each execute_shell_command call for  *)
(* which the executor returned a result appends exactly one entry whose    *)
(* label is "<shell>: <command>".                                          *)
(***************************************************************************)
\* The calls of the run for which the executor returned a result, in order.
ExecutorResults(run) ==
  SelectSeq(run.backend,
            LAMBDA b : /\ b.kind = "execute"
                       /\ Has(b, "answer")
                       /\ b.answer.net)

LabelOf(call) ==
  commandLabel(Arg(call.args, "shell"), Arg(call.args, "command"))

OneEntryPerResult ==
  LET run == runs["r1"]
      res == ExecutorResults(run)
  IN /\ Len(commandHistory) = Len(res)
     /\ \A k \in 1..Len(res) :
          /\ k <= Len(commandHistory)
          /\ Has(commandHistory[k], "command")
          /\ commandHistory[k].command = LabelOf(run.batch[res[k].call])

Appends ==
  \/ commandHistory' = commandHistory
  \/ /\ Len(commandHistory') = Len(commandHistory) + 1
     /\ SubSeq(commandHistory', 1, Len(commandHistory)) = commandHistory

C27_HistoryAppendOnly == []OneEntryPerResult /\ [][Appends]_vars

(***************************************************************************)
(* C28  In the shared tool handlers, handling a call that fails (unknown   *)
(* name, query fault, or a transport fault while contacting the command    *)
(* executor) changes only the error-message state: the stored query        *)
(* result, the command history and the stored graph payload are left       *)
(* unchanged.                                                              *)
(***************************************************************************)
\* This step ends the handling of call runs[r].i.
Handles(r) ==
  /\ runs[r].pc \in { "dispatch", "awaitQuery", "awaitShell" }
  /\ runs'[r].pc \in { "dispatch", "done", "aborted" }

FailingCallKeepsState ==
  \A r \in RunIds :
    (Handles(r) /\ Faulted(runs'[r], runs[r].i))
    => /\ queryResult' = queryResult
       /\ commandHistory' = commandHistory
       /\ altairJson' = altairJson

C28_FailureWritesOnlyError == [][FailingCallKeepsState]_vars

C28_Witness ==
  LET run == runs["r1"] IN
  /\ run.pc = "done"
  /\ Len(run.batch) = 2
  /\ run.batch[1].name = "query_database" /\ ~Faulted(run, 1)
  /\ run.batch[2].name = "query_database" /\ Faulted(run, 2)
  /\ Has(queryResult, "rows") /\ queryResult.rows # << >>
  /\ error # ""

(***************************************************************************)
(* C29  The error-message state is written only by failing calls and is    *)
(* never cleared: after any sequence of calls in which at least one        *)
(* failed, it equals the message of the most recently failed call,         *)
(* regardless of how many calls succeeded afterwards (stated for batches   *)
(* whose sends all returned).                                              *)
(***************************************************************************)
\* The calls of the run whose handling has ended and that failed.
FailedCalls(run) ==
  { i \in DOMAIN run.batch : i < run.i /\ Faulted(run, i) }

LastOf(S) == CHOOSE i \in S : \A j \in S : j <= i

\* The message of the Failure sent for call i.
MessageOf(run, i) ==
  LET p == CHOOSE p \in DeliveredTo(run, run.batch[i].id) : TRUE
  IN ResponseAt(run, p).response.output.error

C29_ErrorIsLastFailure ==
  LET run == runs["r1"] IN
  (run.pc # "free" /\ NoSendFault(run))
  => IF FailedCalls(run) = {}
     THEN error = ""
     ELSE error = MessageOf(run, LastOf(FailedCalls(run)))

C29_Witness ==
  LET run == runs["r1"] IN
  /\ run.pc = "done" /\ NoSendFault(run)
  /\ Len(run.batch) = 2
  /\ Faulted(run, 1)
  /\ run.batch[2].name = "render_altair"
  /\ error = UnknownFunction("bogus")

(***************************************************************************)
(* C30  A POST /query request whose operation is missing, or is not one of *)
(* select, insert, update, delete, list_tables, describe (compared         *)
(* case-insensitively), is answered with status 400 and causes no pool     *)
(* connection to be acquired and no SQL to be executed.                    *)
(***************************************************************************)
DatabaseOperation ==
  { opSELECT, opINSERT, opUPDATE, opDELETE, opLIST, opDESCRIBE }

Supported(body) ==
  /\ ~Falsy(body, "operation")
  /\ IsString(body.operation)
  /\ toUpperCase(body.operation) \in DatabaseOperation

C30_UnsupportedOperationRejected ==
  \A r \in ReqIds :
    (reqs[r].pc # "idle" /\ ~Supported(reqs[r].body))
    => /\ reqs[r].pc = "replied"
       /\ reqs[r].reply.status = 400
       /\ reqs[r].acquired = 0

====
